---- MODULE Spec2Model ----
(***************************************************************************)
(* A model of chatgpt_block.ChatGPTBlock: a conversation session that      *)
(* keeps a rolling history, trims it to a token budget, dispatches it to   *)
(* a hosted chat model and normalizes streamed and non-streamed answers.   *)
(*                                                                         *)
(* Texts (Python str) are sequences of one-character strings.  The         *)
(* tokenizer is an external service; it is modelled as one token per       *)
(* character.  A turn is a record [role, content].                         *)
(***************************************************************************)
EXTENDS Integers, Sequences, FiniteSets, TLC

VARIABLES
    status,             \* "ok", or the exception __init__ raised
    model,              \* self.model
    stream,             \* self.stream
    raise_on_error,     \* self.raise_on_error
    max_output_length,  \* self.max_output_length
    tokens_available,   \* self.tokens_available
    system_prompt,      \* self.system_prompt (a turn)
    initial_examples,   \* self.initial_examples (a list of turns)
    history,            \* self.history (a list of turns)
    answer,             \* self._answer
    calls,              \* one record per __call__ or reset(): its outcome and its consumer-side iterator
    trim_in,            \* the history the last get_trimmed_history was given
    last                \* the operation that produced this state

vars == <<status, model, stream, raise_on_error, max_output_length, tokens_available,
          system_prompt, initial_examples, history, answer, calls, trim_in, last>>

config == <<status, model, raise_on_error, max_output_length, tokens_available,
            system_prompt, initial_examples>>

----------------------------------------------------------------------------
(* Bounds of the model *)

MaxCalls == 3       \* __call__ invocations in one behaviour
MaxOverlapCalls == 2 \* __call__ invocations in a behaviour whose exchanges may overlap
MaxHist == 4        \* turns of an input history of the trimming specification

----------------------------------------------------------------------------
(* Texts *)

SPACE == " "

\* the characters str.isspace() is true for, which str.split() without arguments
\* separates words at: tab, line feed, vertical tab, form feed, carriage return, the
\* separators U+001C to U+001F, the space, next line U+0085, the no-break space U+00A0
\* and the ogham space U+1680.  The remaining ones (U+2000 to U+200A, U+2028, U+2029,
\* U+202F, U+205F, U+3000) cannot be written in a string here, and no text of the
\* model holds them.
Whitespace ==
    {"\t", "\n", "", "\f", "\r", "", "", "", "", SPACE,
     "", " ", " "}

\* str.split() without arguments: the maximal runs of non-whitespace characters
RECURSIVE SplitFrom(_, _, _)
SplitFrom(s, i, word) ==
    IF i > Len(s)
    THEN IF word = <<>> THEN <<>> ELSE <<word>>
    ELSE IF s[i] \in Whitespace
         THEN IF word = <<>>
              THEN SplitFrom(s, i + 1, <<>>)
              ELSE <<word>> \o SplitFrom(s, i + 1, <<>>)
         ELSE SplitFrom(s, i + 1, Append(word, s[i]))

split(s) == SplitFrom(s, 1, <<>>)

\* ' '.join(list of texts)
RECURSIVE join(_)
join(texts) ==
    IF texts = <<>> THEN <<>>
    ELSE IF Len(texts) = 1 THEN texts[1]
    ELSE texts[1] \o <<SPACE>> \o join(Tail(texts))

\* the concatenation of a list of texts
RECURSIVE concat(_)
concat(texts) == IF texts = <<>> THEN <<>> ELSE texts[1] \o concat(Tail(texts))

\* (f'{tok} ' for tok in string.split())
SimpleStringIterator(string) == [i \in 1..Len(split(string)) |-> Append(split(string)[i], SPACE)]

Turn(role, content) == [role |-> role, content |-> content]

Contents(turns) == [i \in 1..Len(turns) |-> turns[i].content]

----------------------------------------------------------------------------
(* Token counting *)

\* self.encoder.encode: the external tokenizer, one token per character
encode(text) == text

get_number_of_tokens_str(input) == Len(encode(input))

get_number_of_tokens_dict(input) == Len(encode(input.content))

get_number_of_tokens_list(input) == Len(encode(join(Contents(input))))

\* sum(self.get_number_of_tokens(el) for el in turns)
RECURSIVE sum_of_tokens(_)
sum_of_tokens(turns) ==
    IF turns = <<>> THEN 0
    ELSE get_number_of_tokens_dict(turns[1]) + sum_of_tokens(Tail(turns))

----------------------------------------------------------------------------
(* History trimming *)

\* list.index(x): the first position holding a value equal to x (1-based here)
list_index(list, x) == CHOOSE i \in 1..Len(list) : list[i] = x /\ \A j \in 1..(i - 1) : list[j] # x

\* the for loop of get_trimmed_history over reversed(self.history); i is the
\* position of the element the loop is about to visit, user_element is <<>> for None
RECURSIVE trim_scan(_, _, _, _, _, _)
trim_scan(h, i, count, total_tokens, trimmed_history, user_element) ==
    IF i = 0
    THEN [trimmed_history |-> trimmed_history, user_element |-> user_element]
    ELSE LET element == h[i]
             tokens_count == count + get_number_of_tokens_dict(element)
         IN  IF tokens_count > total_tokens
             THEN [trimmed_history |-> trimmed_history, user_element |-> user_element]
             ELSE trim_scan(h, i - 1, tokens_count, total_tokens,
                            <<element>> \o trimmed_history,
                            IF element.role = "user" THEN <<element>> ELSE user_element)

\* what a slip in the final slice would do: keep the turns before the user turn
trimmed_history_kept_front(h, avail, out) ==
    LET scan == trim_scan(h, Len(h), 0, avail - out, <<>>, <<>>)
        trimmed_history == scan.trimmed_history
        user_element == scan.user_element
    IN  IF user_element # <<>> /\ user_element[1] # trimmed_history[1]
        THEN SubSeq(trimmed_history, 1, list_index(trimmed_history, user_element[1]) - 1)
        ELSE trimmed_history

\* what a scan without the budget test would do: keep every turn
trimmed_history_no_budget(h, avail, out) ==
    LET scan == trim_scan(h, Len(h), 0, avail - out + 1, <<>>, <<>>)
        trimmed_history == scan.trimmed_history
        user_element == scan.user_element
    IN  IF user_element # <<>> /\ user_element[1] # trimmed_history[1]
        THEN SubSeq(trimmed_history, list_index(trimmed_history, user_element[1]) + 1,
                    Len(trimmed_history))
        ELSE trimmed_history

\* what the final slice would do if it started at the user turn instead of after it
trimmed_history_from_user(h, avail, out) ==
    LET scan == trim_scan(h, Len(h), 0, avail - out, <<>>, <<>>)
        trimmed_history == scan.trimmed_history
        user_element == scan.user_element
    IN  IF user_element # <<>> /\ user_element[1] # trimmed_history[1]
        THEN SubSeq(trimmed_history, list_index(trimmed_history, user_element[1]),
                    Len(trimmed_history))
        ELSE trimmed_history

get_trimmed_history(h, avail, out) ==
    LET total_tokens == avail - out
        scan == trim_scan(h, Len(h), 0, total_tokens, <<>>, <<>>)
        trimmed_history == scan.trimmed_history
        user_element == scan.user_element
    IN  IF user_element # <<>> /\ user_element[1] # trimmed_history[1]
        THEN SubSeq(trimmed_history, list_index(trimmed_history, user_element[1]) + 1,
                    Len(trimmed_history))
        ELSE trimmed_history

----------------------------------------------------------------------------
(* Construction *)

SupportedModels == {"gpt-3.5-turbo", "gpt-3.5-turbo-0301", "gpt-4", "gpt-4-0314"}

max_tokens_by_model(m) ==
    CASE m = "gpt-3.5-turbo" -> 4097
      [] m = "gpt-3.5-turbo-0301" -> 4097
      [] m = "gpt-4" -> 8192
      [] m = "gpt-4-0314" -> 8192

\* [{"role": role, "content": str(content)} for u, a in examples for role, content in ...]
RECURSIVE example_turns(_)
example_turns(examples) ==
    IF examples = <<>> THEN <<>>
    ELSE <<Turn("user", examples[1][1]), Turn("assistant", examples[1][2])>>
         \o example_turns(Tail(examples))

\* the session __init__ leaves behind, or the exception it raises
__init__(prompt, examples, m, out, st, roe) ==
    IF m \notin SupportedModels
    THEN [status |-> "KeyError"]
    ELSE IF max_tokens_by_model(m) < out
    THEN [status |-> "ValueError"]
    ELSE LET sp == Turn("system", prompt)
             ex == example_turns(examples)
             system_prompt_len == get_number_of_tokens_str(sp.content)
             examples_len == get_number_of_tokens_str(join(Contents(ex)))
         IN  [status |-> "ok", model |-> m, stream |-> st, raise_on_error |-> roe,
              max_output_length |-> out,
              tokens_available |-> max_tokens_by_model(m) - (system_prompt_len + examples_len),
              system_prompt |-> sp, initial_examples |-> ex,
              history |-> <<>>, answer |-> <<>>]

NoSession == [model |-> "", stream |-> FALSE, raise_on_error |-> FALSE,
              max_output_length |-> 0, tokens_available |-> 0,
              system_prompt |-> Turn("system", <<>>), initial_examples |-> <<>>,
              history |-> <<>>, answer |-> <<>>]

Constructed(prompt, examples, m, out, st, roe) ==
    LET s == __init__(prompt, examples, m, out, st, roe)
        f == IF s.status = "ok" THEN s ELSE NoSession
    IN  /\ status = s.status
        /\ model = f.model
        /\ stream = f.stream
        /\ raise_on_error = f.raise_on_error
        /\ max_output_length = f.max_output_length
        /\ tokens_available = f.tokens_available
        /\ system_prompt = f.system_prompt
        /\ initial_examples = f.initial_examples
        /\ history = f.history
        /\ answer = f.answer
        /\ calls = <<>>
        /\ trim_in = <<>>
        /\ last = "__init__"

----------------------------------------------------------------------------
(* The trimming specification: get_trimmed_history on every bounded history *)

TrimContents == {<<>>, <<"a">>, <<"c">>, <<"b", "b">>}
TrimTurns == {Turn(r, c) : r \in {"user", "assistant"}, c \in TrimContents}
TrimHistories == UNION {[1..n -> TrimTurns] : n \in 0..MaxHist}
TrimOutArgs == {8192 - k : k \in 0..6}
TrimPrompts == {<<>>, <<"s">>}

InitTrim ==
    \E prompt \in TrimPrompts, out \in TrimOutArgs, h \in TrimHistories :
        /\ status = "ok"
        /\ model = "gpt-4"
        /\ stream = FALSE
        /\ raise_on_error = FALSE
        /\ max_output_length = out
        /\ tokens_available = __init__(prompt, <<>>, "gpt-4", out, FALSE, FALSE).tokens_available
        /\ system_prompt = Turn("system", prompt)
        /\ initial_examples = <<>>
        /\ history = h
        /\ answer = <<>>
        /\ calls = <<>>
        /\ trim_in = h
        /\ last = "__init__"

\* self.history = self.get_trimmed_history()
TrimHistory ==
    /\ last' = "get_trimmed_history"
    /\ trim_in' = history
    /\ history' = get_trimmed_history(history, tokens_available, max_output_length)
    /\ UNCHANGED <<config, stream, answer, calls>>

NextTrim == TrimHistory

SpecTrim == InitTrim /\ [][NextTrim]_vars

----------------------------------------------------------------------------
(* Responses of the model service *)

None == <<>>            \* Python None, and an absent key of a chunk
Some(x) == <<x>>

\* choices[0] of a streamed chunk or of a complete response object
Chunk(finish_reason, delta, message) ==
    [finish_reason |-> finish_reason, delta |-> delta, message |-> message]

Delta(content) == Chunk("None", Some(content), None)
NoContent == Chunk("None", None, None)
Finish(reason) == Chunk(reason, None, None)

\* a streamed response: the chunks the upstream sequence delivers and how it ends
Script(chunks, end) == [chunks |-> chunks, end |-> end]

NoScript == Script(<<>>, "")

Scripts ==
    { Script(<<Delta(<<"A">>), Delta(<<"B">>), Delta(<<"C">>), Finish("stop")>>, "StopIteration"),
      Script(<<NoContent, Delta(<<"A">>), Delta(<<>>), Finish("length")>>, "StopIteration"),
      Script(<<Delta(<<"A">>), Finish("content_filter")>>, "StopIteration"),
      Script(<<Delta(<<"B">>)>>, "StopIteration"),
      Script(<<Delta(<<"A">>)>>, "ChunkedEncodingError"),
      Script(<<>>, "ChunkedEncodingError") }

MessageContents == {<<"X">>}
FinishReasons == {"stop", "length", "content_filter"}

\* complete response objects: a finish marker and a message with or without content
ObjectResponses ==
    {Chunk(f, None, m) : f \in FinishReasons, m \in {None} \cup {Some(c) : c \in MessageContents}}

IsTerminal(chunk) == chunk.finish_reason \in {"stop", "length"}

\* what process_response would do if a complete message were added to the pending
\* answer instead of replacing it
process_response_accumulating(chunk, st, ans, hist) ==
    IF chunk.finish_reason = "None"
    THEN LET content == IF chunk.delta # None THEN chunk.delta[1] ELSE <<>>
         IN  [exc |-> "", ret |-> Some(content), answer |-> ans \o content, history |-> hist]
    ELSE IF chunk.finish_reason = "stop" \/ chunk.finish_reason = "length"
    THEN LET take == ~st /\ chunk.message # None
             new_answer == IF take THEN ans \o chunk.message[1] ELSE ans
             final_answer == IF take THEN Some(new_answer) ELSE None
         IN  [exc |-> "", ret |-> final_answer, answer |-> <<>>,
              history |-> Append(hist, Turn("assistant", new_answer))]
    ELSE [exc |-> "Exception(finish_reason)", ret |-> None, answer |-> ans, history |-> hist]

\* what process_response would do if it took every finish marker for the end of the answer
process_response_finishing_any(chunk, st, ans, hist) ==
    IF chunk.finish_reason = "None"
    THEN LET content == IF chunk.delta # None THEN chunk.delta[1] ELSE <<>>
         IN  [exc |-> "", ret |-> Some(content), answer |-> ans \o content, history |-> hist]
    ELSE LET take == ~st /\ chunk.message # None
             new_answer == IF take THEN chunk.message[1] ELSE ans
             final_answer == IF take THEN Some(new_answer) ELSE None
         IN  [exc |-> "", ret |-> final_answer, answer |-> <<>>,
              history |-> Append(hist, Turn("assistant", new_answer))]

\* what process_response would do if it recorded the assistant's turn as the deltas arrive
process_response_recording_deltas(chunk, st, ans, hist) ==
    IF chunk.finish_reason = "None"
    THEN LET content == IF chunk.delta # None THEN chunk.delta[1] ELSE <<>>
         IN  [exc |-> "", ret |-> Some(content), answer |-> ans \o content,
              history |-> Append(hist, Turn("assistant", ans \o content))]
    ELSE IF chunk.finish_reason = "stop" \/ chunk.finish_reason = "length"
    THEN LET take == ~st /\ chunk.message # None
             new_answer == IF take THEN chunk.message[1] ELSE ans
             final_answer == IF take THEN Some(new_answer) ELSE None
         IN  [exc |-> "", ret |-> final_answer, answer |-> <<>>, history |-> hist]
    ELSE [exc |-> "Exception(finish_reason)", ret |-> None, answer |-> ans, history |-> hist]

\* what process_response does to (self._answer, self.history) and what it returns;
\* exc names the exception it raises, "" when it returns
process_response(chunk, st, ans, hist) ==
    IF chunk.finish_reason = "None"
    THEN LET content == IF chunk.delta # None THEN chunk.delta[1] ELSE <<>>
         IN  [exc |-> "", ret |-> Some(content), answer |-> ans \o content, history |-> hist]
    ELSE IF chunk.finish_reason = "stop" \/ chunk.finish_reason = "length"
    THEN LET take == ~st /\ chunk.message # None
             new_answer == IF take THEN chunk.message[1] ELSE ans
             final_answer == IF take THEN Some(new_answer) ELSE None
         IN  [exc |-> "", ret |-> final_answer, answer |-> <<>>,
              history |-> Append(hist, Turn("assistant", new_answer))]
    ELSE [exc |-> "Exception(finish_reason)", ret |-> None, answer |-> ans, history |-> hist]

----------------------------------------------------------------------------
(* Dispatch failures *)

OpenAIErrorPrefix ==
    <<"O", "p", "e", "n", "A", "I", " ", "i", "n", "t", "e", "r", "n", "a", "l", " ",
      "e", "r", "r", "o", "r", ".", " ">>
InternalErrorPrefix ==
    <<"I", "n", "t", "e", "r", "n", "a", "l", " ", "e", "r", "r", "o", "r", ".", " ">>
StreamErrorMessage ==
    <<"o", "p", "e", "n", "A", "I", " ", "e", "r", "r", "o", "r", ".", " ",
      "P", "l", "e", "a", "s", "e", " ", "t", "r", "y", " ", "a", "g", "a", "i", "n", ".">>

\* the exceptions create raises, each with its str(e)
DispatchFailures == {<<"OpenAIError", <<"5", "0", "3">>>>, <<"Exception", <<"\t">>>>}

\* what call_raw_api would do if it re-raised before reaching the hook
call_raw_api_failed_raising_first(kind, text, st, roe) ==
    LET errmsg == (IF kind = "OpenAIError" THEN OpenAIErrorPrefix ELSE InternalErrorPrefix) \o text
    IN  IF roe
        THEN [trace |-> <<"raise">>, exc |-> kind, type |-> "", response |-> <<>>]
        ELSE IF st
        THEN [trace |-> <<"on_error">>, exc |-> "", type |-> "SimpleStringIterator",
              response |-> SimpleStringIterator(errmsg)]
        ELSE [trace |-> <<"on_error">>, exc |-> "", type |-> "str", response |-> errmsg]

\* the except branches of call_raw_api: the hook, then the re-raise or the degraded response
call_raw_api_failed(kind, text, st, roe) ==
    LET errmsg == (IF kind = "OpenAIError" THEN OpenAIErrorPrefix ELSE InternalErrorPrefix) \o text
    IN  IF roe
        THEN [trace |-> <<"on_error", "raise">>, exc |-> kind, type |-> "", response |-> <<>>]
        ELSE IF st
        THEN [trace |-> <<"on_error">>, exc |-> "", type |-> "SimpleStringIterator",
              response |-> SimpleStringIterator(errmsg)]
        ELSE [trace |-> <<"on_error">>, exc |-> "", type |-> "str", response |-> errmsg]

\* api_answer_wrapper on what call_raw_api returned after a failure
api_answer_wrapper_failed(raw) ==
    IF raw.exc # ""
    THEN [outcome |-> "raised", exc |-> raw.exc, value |-> <<>>, pending |-> <<>>,
          trace |-> raw.trace]
    ELSE IF raw.type = "SimpleStringIterator"
    THEN [outcome |-> "SimpleStringIterator", exc |-> "", value |-> <<>>,
          pending |-> raw.response, trace |-> Append(raw.trace, "return")]
    ELSE [outcome |-> "raised", exc |-> "ValueError", value |-> <<>>, pending |-> <<>>,
          trace |-> Append(raw.trace, "raise")]

----------------------------------------------------------------------------
(* The streaming generator *)

\* what the except branch of generator_wrapper would do without its call of the hook
generator_wrapper_failed_silently(roe) ==
    [trace |-> <<>>, exc |-> "",
     fragments |-> [i \in 1..Len(split(StreamErrorMessage)) |->
                        Append(split(StreamErrorMessage)[i], SPACE)]]

\* the except branch of generator_wrapper: the hook, then the fixed message word by word
generator_wrapper_failed(roe) ==
    [trace |-> <<"on_error">>, exc |-> "",
     fragments |-> [i \in 1..Len(split(StreamErrorMessage)) |->
                        Append(split(StreamErrorMessage)[i], SPACE)]]

\* one next() on generator_wrapper's generator, resumed after `consumed` chunks:
\* the body runs until it yields a piece, raises, or returns
RECURSIVE generator_wrapper_next(_, _, _, _, _, _)
generator_wrapper_next(script, consumed, st, roe, ans, hist) ==
    IF consumed = Len(script.chunks)
    THEN IF script.end = "ChunkedEncodingError"
         THEN LET f == generator_wrapper_failed(roe)
              IN  [it |-> IF f.exc # "" THEN "raised" ELSE "degraded", consumed |-> consumed,
                   exc |-> f.exc, trace |-> f.trace,
                   yield |-> IF f.exc # "" THEN <<>> ELSE <<f.fragments[1]>>,
                   pending |-> IF f.exc # "" THEN <<>> ELSE Tail(f.fragments),
                   answer |-> ans, history |-> hist]
         ELSE [it |-> "done", consumed |-> consumed, exc |-> "", trace |-> <<>>,
               yield |-> <<>>, pending |-> <<>>,
               answer |-> ans, history |-> hist]
    ELSE LET r == process_response(script.chunks[consumed + 1], st, ans, hist)
             piece == IF r.ret = None THEN <<>> ELSE r.ret[1]
         IN  IF r.exc # ""
             THEN [it |-> "raised", consumed |-> consumed + 1, exc |-> r.exc,
                   trace |-> <<"raise">>, yield |-> <<>>, pending |-> <<>>,
                   answer |-> r.answer, history |-> r.history]
             ELSE IF piece # <<>>
             THEN [it |-> "suspended", consumed |-> consumed + 1, exc |-> "", trace |-> <<>>,
                   yield |-> <<piece>>, pending |-> <<>>,
                   answer |-> r.answer, history |-> r.history]
             ELSE generator_wrapper_next(script, consumed + 1, st, roe, r.answer, r.history)

----------------------------------------------------------------------------
(* The session *)

Requests == {<<"p">>, <<"q", "q">>}

\* the default preprocessor, lambda text: text
preprocessor(text) == text

Count(seq, x) == Cardinality({i \in 1..Len(seq) : seq[i] = x})

AssistantTurns(h) == SelectSeq(h, LAMBDA t : t.role = "assistant")

\* the generator of c is still inside the loop over the upstream chunks: its next()
\* runs process_response on the session
Live(c) == c.outcome = "generator" /\ c.it \in {"fresh", "suspended"}

\* the consumer of c holds an iterator that is neither exhausted nor closed
Open(c) ==
    \/ c.outcome = "generator" /\ c.it \in {"fresh", "suspended", "degraded"}
    \/ c.outcome = "SimpleStringIterator" /\ c.it \in {"fresh", "suspended"}

\* the record of an exchange that is over, once a later call has started: the log
\* keeps the details of the exchanges in progress and of the latest one
Retired ==
    [request |-> <<>>, stream |-> FALSE, pre_history |-> <<>>, pre_answer |-> <<>>,
     sent |-> <<>>, dispatch |-> "retired", script |-> NoScript,
     outcome |-> "retired", exc |-> "", value |-> <<>>, post_history |-> <<>>,
     post_answer |-> <<>>, on_error |-> 0, trace |-> <<>>, it |-> "none",
     consumed |-> 0, yielded |-> <<>>, pending |-> <<>>, alone |-> TRUE, clean |-> TRUE]

\* another operation of the session ran while a streamed exchange was in progress
Disturb(cs) == [j \in 1..Len(cs) |-> IF Live(cs[j]) THEN [cs[j] EXCEPT !.clean = FALSE] ELSE cs[j]]

\* a new call: the exchanges in progress are disturbed, the records whose iterator is
\* exhausted or closed (or that never had one) are retired
Superseded(cs) ==
    [j \in 1..Len(cs) |-> IF Live(cs[j]) THEN [cs[j] EXCEPT !.clean = FALSE]
                          ELSE IF Open(cs[j]) THEN cs[j] ELSE Retired]

NoLive == \A j \in 1..Len(calls) : ~Live(calls[j])

NoOpen == \A j \in 1..Len(calls) : ~Open(calls[j])

DisturbOthers(cs, i) ==
    [j \in 1..Len(cs) |-> IF j # i /\ Live(cs[j]) THEN [cs[j] EXCEPT !.clean = FALSE] ELSE cs[j]]

CanCall == status = "ok" /\ Len(calls) < MaxCalls

\* lines 301-302 of __call__: the preprocessed request is appended as a user turn
Submitted(request) == Append(history, Turn("user", preprocessor(request)))

CallRecord(request, dispatch, script, out, sent, post_history, post_answer) ==
    [request |-> request, stream |-> stream, pre_history |-> history, pre_answer |-> answer,
     sent |-> sent, dispatch |-> dispatch, script |-> script,
     outcome |-> out.outcome, exc |-> out.exc,
     value |-> out.value, post_history |-> post_history, post_answer |-> post_answer,
     on_error |-> Count(out.trace, "on_error"), trace |-> out.trace,
     it |-> IF out.outcome \in {"generator", "SimpleStringIterator"} THEN "fresh" ELSE "none",
     consumed |-> 0, yielded |-> <<>>, pending |-> out.pending,
     alone |-> NoLive, clean |-> TRUE]

\* what __call__ would do if a failed dispatch recorded its degraded message as the
\* assistant's turn
CallFailsRecordingAnswer(request, kind, text) ==
    /\ CanCall
    /\ LET sent == get_trimmed_history(Submitted(request), tokens_available, max_output_length)
           out == api_answer_wrapper_failed(call_raw_api_failed(kind, text, stream, raise_on_error))
           recorded == Append(sent, Turn("assistant", InternalErrorPrefix \o text))
       IN  /\ trim_in' = Submitted(request)
           /\ history' = recorded
           /\ answer' = <<>>
           /\ calls' = Append(Superseded(calls),
                              CallRecord(request, kind, NoScript, out, sent, recorded, <<>>))
    /\ UNCHANGED <<config, stream, last>>

\* __call__ when openai.ChatCompletion.create raises
CallFails(request, kind, text) ==
    /\ CanCall
    /\ LET sent == get_trimmed_history(Submitted(request), tokens_available, max_output_length)
           out == api_answer_wrapper_failed(call_raw_api_failed(kind, text, stream, raise_on_error))
       IN  /\ trim_in' = Submitted(request)
           /\ history' = sent
           /\ answer' = answer
           /\ calls' = Append(Superseded(calls),
                              CallRecord(request, kind, NoScript, out, sent, sent, answer))
    /\ UNCHANGED <<config, stream, last>>

\* __call__ in streaming mode when the service answers: the caller gets generator_wrapper's generator
CallStreams(request, script) ==
    /\ CanCall
    /\ stream
    /\ LET sent == get_trimmed_history(Submitted(request), tokens_available, max_output_length)
           out == [outcome |-> "generator", exc |-> "", value |-> <<>>, pending |-> <<>>,
                   trace |-> <<"return">>]
       IN  /\ trim_in' = Submitted(request)
           /\ history' = sent
           /\ answer' = answer
           /\ calls' = Append(Superseded(calls),
                              CallRecord(request, "ok", script, out, sent, sent, answer))
    /\ UNCHANGED <<config, stream, last>>

\* __call__ in non-streaming mode when the service answers with a complete object
CallCompletes(request, obj) ==
    /\ CanCall
    /\ ~stream
    /\ LET sent == get_trimmed_history(Submitted(request), tokens_available, max_output_length)
           r == process_response(obj, stream, answer, sent)
           out == IF r.exc # ""
                  THEN [outcome |-> "raised", exc |-> r.exc, value |-> <<>>, pending |-> <<>>,
                        trace |-> <<"raise">>]
                  ELSE IF r.ret = None
                  THEN [outcome |-> "None", exc |-> "", value |-> <<>>, pending |-> <<>>,
                        trace |-> <<"return">>]
                  ELSE [outcome |-> "str", exc |-> "", value |-> r.ret[1], pending |-> <<>>,
                        trace |-> <<"return">>]
       IN  /\ trim_in' = Submitted(request)
           /\ history' = r.history
           /\ answer' = r.answer
           /\ calls' = Append(Superseded(calls),
                              CallRecord(request, "ok", Script(<<obj>>, ""), out, sent,
                                         r.history, r.answer))
    /\ UNCHANGED <<config, stream, last>>

\* one next() on a generator that is inside the loop over the fixed message (lines
\* 270-271): the next word, or the end of the generator after the last word
generator_wrapper_next_word(pending, consumed, ans, hist) ==
    IF pending = <<>>
    THEN [it |-> "done", consumed |-> consumed, exc |-> "", trace |-> <<>>,
          yield |-> <<>>, pending |-> <<>>, answer |-> ans, history |-> hist]
    ELSE [it |-> "degraded", consumed |-> consumed, exc |-> "", trace |-> <<>>,
          yield |-> <<pending[1]>>, pending |-> Tail(pending), answer |-> ans, history |-> hist]

\* the consumer calls next() on the generator of call i
GenNext(i) ==
    /\ status = "ok"
    /\ calls[i].outcome = "generator"
    /\ Open(calls[i])
    /\ LET c == calls[i]
           g == IF c.it = "degraded"
                THEN generator_wrapper_next_word(c.pending, c.consumed, answer, history)
                ELSE generator_wrapper_next(c.script, c.consumed, stream, raise_on_error,
                                            answer, history)
           others == IF c.it = "degraded" THEN calls ELSE DisturbOthers(calls, i)
       IN  /\ history' = g.history
           /\ answer' = g.answer
           /\ calls' = [others EXCEPT ![i] =
                  [c EXCEPT !.it = g.it, !.consumed = g.consumed, !.exc = g.exc,
                            !.on_error = @ + Count(g.trace, "on_error"),
                            !.trace = @ \o g.trace,
                            !.yielded = @ \o g.yield,
                            !.pending = g.pending,
                            !.post_history = IF c.it = "degraded" THEN @ ELSE g.history,
                            !.post_answer = IF c.it = "degraded" THEN @ ELSE g.answer]]
    /\ UNCHANGED <<config, stream, trim_in, last>>

\* SimpleStringIterator.__next__: the consumer takes the next word, or meets the end
SimpleNext(i) ==
    /\ status = "ok"
    /\ calls[i].outcome = "SimpleStringIterator"
    /\ Open(calls[i])
    /\ calls' = [calls EXCEPT ![i] =
            IF calls[i].pending = <<>>
            THEN [@ EXCEPT !.it = "done"]
            ELSE [@ EXCEPT !.it = "suspended",
                           !.yielded = Append(@, calls[i].pending[1]),
                           !.pending = Tail(@)]]
    /\ UNCHANGED <<config, stream, history, answer, trim_in, last>>

\* the consumer closes the generator of call i, or drops it: GeneratorExit is raised at
\* the yield (or the body never starts), which generator_wrapper does not catch
GenClose(i) ==
    /\ status = "ok"
    /\ calls[i].outcome = "generator"
    /\ Open(calls[i])
    /\ calls' = [calls EXCEPT ![i] = [@ EXCEPT !.it = "closed"]]
    /\ UNCHANGED <<config, stream, history, answer, trim_in, last>>

\* the caller flips the streaming flag between calls
SetStream ==
    /\ status = "ok"
    /\ stream' = ~stream
    /\ UNCHANGED <<config, history, answer, calls, trim_in, last>>

\* the entry reset() leaves in the log
ResetRecord == [Retired EXCEPT !.dispatch = "reset", !.outcome = "reset"]

\* what reset() would do if it cleared the history only
ResetKeepingAnswer ==
    /\ status = "ok"
    /\ Len(calls) < MaxCalls
    /\ history' = <<>>
    /\ answer' = answer
    /\ calls' = Append(Disturb(calls), ResetRecord)
    /\ UNCHANGED <<config, stream, trim_in, last>>

\* reset()
Reset ==
    /\ status = "ok"
    /\ Len(calls) < MaxCalls
    /\ history' = <<>>
    /\ answer' = <<>>
    /\ calls' = Append(Disturb(calls), ResetRecord)
    /\ UNCHANGED <<config, stream, trim_in, last>>

ModelArgs == {"gpt-4", "gpt-9000"}
OutArgs == {8188, 8192, 8193}
PromptArgs == {<<"s">>}

Init ==
    \E prompt \in PromptArgs, m \in ModelArgs, out \in OutArgs, st \in BOOLEAN, roe \in BOOLEAN :
        Constructed(prompt, <<>>, m, out, st, roe)

\* any use: a call may start while earlier exchanges are in progress
MayOverlap == Len(calls) < MaxOverlapCalls

\* the requests of the behaviours whose exchanges may overlap
OverlapRequests == {<<"p">>}

Next ==
    \/ MayOverlap /\ \E request \in OverlapRequests, e \in DispatchFailures :
                         CallFails(request, e[1], e[2])
    \/ MayOverlap /\ \E request \in OverlapRequests, script \in Scripts : CallStreams(request, script)
    \/ MayOverlap /\ \E request \in OverlapRequests, obj \in ObjectResponses :
                         CallCompletes(request, obj)
    \/ \E i \in 1..Len(calls) : GenNext(i)
    \/ \E i \in 1..Len(calls) : GenClose(i)
    \/ \E i \in 1..Len(calls) : SimpleNext(i)
    \/ SetStream
    \/ Reset

Spec == Init /\ [][Next]_vars

\* sequential use: a call starts only when every earlier exchange is over, the consumer
\* having exhausted or closed its iterator; reset() and the flag may come at any time
NextSeq ==
    \/ NoOpen /\ \E request \in Requests, e \in DispatchFailures : CallFails(request, e[1], e[2])
    \/ NoOpen /\ \E request \in Requests, script \in Scripts : CallStreams(request, script)
    \/ NoOpen /\ \E request \in Requests, obj \in ObjectResponses : CallCompletes(request, obj)
    \/ \E i \in 1..Len(calls) : GenNext(i)
    \/ \E i \in 1..Len(calls) : GenClose(i)
    \/ \E i \in 1..Len(calls) : SimpleNext(i)
    \/ SetStream
    \/ Reset

SpecSeq == Init /\ [][NextSeq]_vars

----------------------------------------------------------------------------
(* Vocabulary of the properties *)

IsSuffix(s, t) == Len(s) <= Len(t) /\ s = SubSeq(t, Len(t) - Len(s) + 1, Len(t))

\* the limit get_trimmed_history works with: tokens_available - max_output_length
Limit == tokens_available - max_output_length

Trimmed == last = "get_trimmed_history"

CallIds == 1..Len(calls)

DispatchFailed(c) == c.dispatch \in {"OpenAIError", "Exception"}

\* the message call_raw_api builds from the exception
ErrorMessageOf(c) ==
    (IF c.dispatch = "OpenAIError" THEN OpenAIErrorPrefix ELSE InternalErrorPrefix)
        \o (CHOOSE e \in DispatchFailures : e[1] = c.dispatch)[2]

\* the fixed message of generator_wrapper, one word and a space per fragment
StreamErrorWords ==
    << <<"o", "p", "e", "n", "A", "I", " ">>, <<"e", "r", "r", "o", "r", ".", " ">>,
       <<"P", "l", "e", "a", "s", "e", " ">>, <<"t", "r", "y", " ">>,
       <<"a", "g", "a", "i", "n", ".", " ">> >>

\* the texts the deltas of a streamed response carry, an absent content counting as empty
DeltasOf(chunks) ==
    LET ds == SelectSeq(chunks, LAMBDA k : k.finish_reason = "None")
    IN  [n \in 1..Len(ds) |-> IF ds[n].delta = None THEN <<>> ELSE ds[n].delta[1]]

NonEmpty(texts) == SelectSeq(texts, LAMBDA t : t # <<>>)

\* the upstream sequence of a streamed exchange raised ChunkedEncodingError at the
\* consumer's next(); a generator closed later has by then yielded more than its deltas
MidStreamFailed(c) ==
    /\ c.outcome = "generator"
    /\ c.script.end = "ChunkedEncodingError"
    /\ c.consumed = Len(c.script.chunks)
    /\ \/ c.it \in {"degraded", "done", "raised"}
       \/ c.it = "closed" /\ Len(c.yielded) > Len(NonEmpty(DeltasOf(c.script.chunks)))

\* content deltas followed by exactly one terminal chunk, after which the sequence ends
DeltasThenTerminal(script) ==
    /\ script.end = "StopIteration"
    /\ script.chunks # <<>>
    /\ IsTerminal(script.chunks[Len(script.chunks)])
    /\ \A n \in 1..(Len(script.chunks) - 1) : script.chunks[n].finish_reason = "None"

----------------------------------------------------------------------------
(* Properties *)

\* C1: a call whose dispatch fails while raise-on-error is false returns normally with
\* a non-empty degraded response of the shape asked for: word-by-word fragments when
\* streaming is on, the plain error string when it is off.
C1_DegradedResponseInRequestedShape ==
    \A i \in CallIds :
        LET c == calls[i] IN
        (DispatchFailed(c) /\ ~raise_on_error) =>
            /\ c.outcome # "raised"
            /\ c.stream => /\ c.outcome = "SimpleStringIterator"
                           /\ c.pending \o c.yielded # <<>>
            /\ ~c.stream => /\ c.outcome = "str"
                            /\ c.value = ErrorMessageOf(c)
                            /\ c.value # <<>>

\* C2: a call that fails because of the model service (at dispatch, or by a transport
\* failure mid-stream) has had the on-error hook invoked exactly once, whatever
\* raise-on-error is; a call that has not failed so has had it invoked never.
C2_HookOncePerFailedCall ==
    \A i \in CallIds :
        LET c == calls[i] IN
        c.on_error = IF DispatchFailed(c) \/ MidStreamFailed(c) THEN 1 ELSE 0

C2_Witness ==
    \E i \in CallIds :
        /\ raise_on_error
        /\ MidStreamFailed(calls[i])
        /\ calls[i].yielded # <<>>
        /\ calls[i].consumed > 0
        /\ calls[i].on_error = 1

\* C3: when the dispatch fails and raise-on-error is true, the original failure reaches
\* the caller, no degraded response is returned, and the hook ran before the raise.
C3_RaiseAfterHook ==
    \A i \in CallIds :
        LET c == calls[i] IN
        (DispatchFailed(c) /\ raise_on_error) =>
            /\ c.outcome = "raised"
            /\ c.exc = c.dispatch
            /\ c.trace = <<"on_error", "raise">>
            /\ c.value = <<>> /\ c.pending = <<>> /\ c.yielded = <<>>

C3_Witness ==
    \E i \in CallIds :
        /\ DispatchFailed(calls[i]) /\ raise_on_error
        /\ calls[i].outcome = "raised" /\ calls[i].exc = "OpenAIError"

\* C4: on a transport failure mid-stream the consumer gets the fixed degraded message
\* word by word and no exception when raise-on-error is false, and gets the failure
\* itself, not the degraded message, when raise-on-error is true.
C4_MidStreamFailureFollowsRaiseOnError ==
    \A i \in CallIds :
        LET c == calls[i] IN
        MidStreamFailed(c) =>
            IF raise_on_error
            THEN c.it = "raised" /\ c.exc = "ChunkedEncodingError"
            ELSE /\ c.exc = ""
                 /\ IsSuffix(StreamErrorWords, c.yielded \o c.pending)

\* C5: a call whose dispatch fails while raise-on-error is false appends no assistant
\* turn: the assistant turns of the history after the call were all there before it,
\* and the pending answer is what it was.
C5_FailedCallAppendsNoAssistantTurn ==
    \A i \in CallIds :
        LET c == calls[i] IN
        (DispatchFailed(c) /\ ~raise_on_error) =>
            /\ IsSuffix(AssistantTurns(c.post_history), AssistantTurns(c.pre_history))
            /\ c.post_answer = c.pre_answer

C5_Witness ==
    \E i \in CallIds :
        /\ DispatchFailed(calls[i]) /\ ~raise_on_error
        /\ AssistantTurns(calls[i].post_history) # <<>>
        /\ Len(calls[i].post_history) < Len(calls[i].pre_history) + 1

\* C6 as stated: for every history and every limit, zero and negative limits included,
\* the token total of the trimmed history is at most the limit.
C6_TrimFitsAnyLimit ==
    Trimmed => sum_of_tokens(history) <= Limit

\* C6 amended: for every history and every limit that is not negative, the token total
\* of the trimmed history is at most the limit; under a negative limit the trimmed
\* history is empty.
C6_TrimFitsLimitOrIsEmpty ==
    Trimmed => /\ Limit >= 0 => sum_of_tokens(history) <= Limit
               /\ Limit < 0 => history = <<>>

C6_Witness ==
    /\ Trimmed
    /\ Limit > 0
    /\ history # <<>>
    /\ Len(history) < Len(trim_in)
    /\ sum_of_tokens(history) = Limit

\* C7: the trimmed history is a contiguous suffix of the history it was made from (the
\* same turns in the same order, ending at its last turn, or empty), also when the
\* history holds several turns of the same role and content.
C7_TrimIsSuffix ==
    Trimmed => IsSuffix(history, trim_in)

C7_Witness ==
    /\ Trimmed
    /\ history # <<>>
    /\ Len(history) < Len(trim_in)
    /\ \E a, b \in 1..Len(trim_in) :
           /\ a < b
           /\ trim_in[a] = trim_in[b]
           /\ trim_in[a].role = "user"
           /\ b > Len(trim_in) - Len(history)

\* C8: trimming is idempotent: trimming a trimmed history once more under the same
\* limit returns it unchanged.
C8_TrimIdempotent ==
    Trimmed => get_trimmed_history(history, tokens_available, max_output_length) = history

\* C9: when a streamed exchange delivers content deltas and then one terminal chunk and
\* the consumer drains it, with no other exchange in progress meanwhile, exactly one
\* assistant turn has been appended to the dispatched history, its content is the
\* concatenation of the deltas in order, the fragments yielded are the non-empty deltas
\* in order, and the pending answer is empty.
C9_StreamingAccumulation ==
    \A i \in CallIds :
        LET c == calls[i] IN
        (/\ c.outcome = "generator"
         /\ DeltasThenTerminal(c.script)
         /\ c.it = "done"
         /\ c.alone /\ c.clean) =>
            /\ c.post_history = Append(c.sent, Turn("assistant", concat(DeltasOf(c.script.chunks))))
            /\ c.yielded = NonEmpty(DeltasOf(c.script.chunks))
            /\ c.post_answer = <<>>

\* C10: in non-streaming mode a successful response with finish_reason stop or length
\* and message content X makes the call append exactly one assistant turn with content
\* X to the dispatched history, return X and leave the pending answer empty, whatever
\* the pending answer held before the call.
C10_NonStreamingRoundTrip ==
    \A i \in CallIds :
        LET c == calls[i] IN
        (/\ ~c.stream
         /\ c.dispatch = "ok"
         /\ IsTerminal(c.script.chunks[1])
         /\ c.script.chunks[1].message # None) =>
            LET X == c.script.chunks[1].message[1] IN
            /\ c.outcome = "str"
            /\ c.value = X
            /\ c.post_history = Append(c.sent, Turn("assistant", X))
            /\ c.post_answer = <<>>

C10_Witness ==
    \E i \in CallIds :
        /\ ~calls[i].stream
        /\ calls[i].dispatch = "ok"
        /\ calls[i].script.chunks[1].finish_reason = "length"
        /\ calls[i].pre_answer # <<>>
        /\ calls[i].outcome = "str"
        /\ calls[i].sent # <<>>

\* C11: reset() leaves the history and the pending answer empty and changes nothing
\* else of the session (system prompt, example turns, model, remaining capacity, output
\* reservation, streaming flag, raise-on-error), from any state: after successful, failed
\* or partially consumed exchanges.
C11_ResetClearsAndKeepsConfiguration ==
    [][(/\ Len(calls') = Len(calls) + 1
        /\ calls'[Len(calls')].dispatch = "reset") =>
            /\ history' = <<>>
            /\ answer' = <<>>
            /\ config' = config
            /\ stream' = stream]_vars

\* the one reset() of the behaviour came while a streamed exchange was in progress: the
\* fragments yielded so far had filled the pending answer and the history was the
\* dispatched one
C11_Witness ==
    /\ Cardinality({i \in CallIds : calls[i].dispatch = "reset"}) = 1
    /\ history = <<>> /\ answer = <<>>
    /\ \E i, j \in CallIds :
           /\ j < i
           /\ calls[i].dispatch = "reset"
           /\ Live(calls[j])
           /\ ~calls[j].clean
           /\ calls[j].yielded # <<>>
           /\ calls[j].sent # <<>>

\* C12: construction fails whenever the requested output reservation is greater than or
\* equal to the capacity of the model, so every constructed session has
\* max_output_length < capacity.
C12_ReservationBelowCapacity ==
    status = "ok" => max_output_length < max_tokens_by_model(model)

\* a finish marker that is neither absent, stop nor length
Unrecognized(chunk) == chunk.finish_reason \notin {"None", "stop", "length"}

\* the number of response chunks call c has had processed
Processed(c) == IF c.outcome = "generator" THEN c.consumed ELSE Len(c.script.chunks)

\* the last chunk processed for call c carried an unrecognized finish marker
ProcessedUnrecognized(c) ==
    /\ c.dispatch = "ok"
    /\ Processed(c) > 0
    /\ Unrecognized(c.script.chunks[Processed(c)])

\* C13: a response chunk, streamed or not, whose finish_reason is neither absent, stop
\* nor length makes the exchange fail with the unrecognized-state exception, which
\* reaches the caller or consumer whatever raise-on-error is: no degraded message takes
\* its place, the on-error hook is not invoked and no assistant turn is appended.
C13_UnrecognizedFinishPropagates ==
    \A i \in CallIds :
        LET c == calls[i] IN
        ProcessedUnrecognized(c) =>
            /\ c.exc = "Exception(finish_reason)"
            /\ IF c.outcome = "generator" THEN c.it = "raised" ELSE c.outcome = "raised"
            /\ c.on_error = 0
            /\ c.value = <<>> /\ c.pending = <<>>
            /\ c.yielded = NonEmpty(DeltasOf(SubSeq(c.script.chunks, 1, Processed(c) - 1)))
            /\ IsSuffix(AssistantTurns(c.post_history), AssistantTurns(c.sent))
            /\ c.clean => c.post_history = c.sent

C13_Witness ==
    /\ \E i \in CallIds :
           /\ ProcessedUnrecognized(calls[i])
           /\ calls[i].outcome = "generator"
           /\ calls[i].yielded # <<>>
           /\ AssistantTurns(calls[i].sent) # <<>>
    /\ ~raise_on_error

\* a terminal chunk is among the chunks processed for call c
TerminalProcessed(c) == \E n \in 1..Processed(c) : IsTerminal(c.script.chunks[n])

\* C14: in a streamed exchange the assistant turn is appended only by the step that
\* processes the terminal chunk: while the consumer has drained none or only some of the
\* fragments, and for good if the consumer stops before the terminal chunk, the history
\* holds no assistant turn for the exchange: its assistant turns were all dispatched,
\* and it is the dispatched history itself unless reset() has run since.
C14_AssistantTurnOnlyAtTerminal ==
    \A i \in CallIds :
        LET c == calls[i] IN
        (c.outcome = "generator" /\ ~TerminalProcessed(c)) =>
            /\ IsSuffix(AssistantTurns(c.post_history), AssistantTurns(c.sent))
            /\ c.clean => c.post_history = c.sent
            /\ (\A j \in (i + 1)..Len(calls) : calls[j].dispatch = "reset") =>
                   IsSuffix(AssistantTurns(history), AssistantTurns(c.sent))
            /\ i = Len(calls) => history = c.sent

C14_Witness ==
    \E i \in CallIds :
        /\ calls[i].outcome = "generator"
        /\ DeltasThenTerminal(calls[i].script)
        /\ calls[i].it = "closed"
        /\ Len(calls[i].yielded) >= 2
        /\ answer # <<>>
        /\ history = calls[i].sent /\ history # <<>>

\* C15: the pending answer is empty whenever a streamed exchange starts, also after a
\* mid-stream failure, an unrecognized finish_reason or an abandoned stream.
C15_PendingAnswerEmptyAtStreamStart ==
    \A i \in CallIds :
        calls[i].outcome = "generator" => calls[i].pre_answer = <<>>

\* the assistant turn a streamed exchange should leave: its own deltas in order
OwnTurn(c) == Turn("assistant", concat(DeltasOf(c.script.chunks)))

\* a streamed exchange of deltas and a terminal chunk, drained through the terminal chunk
Finalized(c) == c.outcome = "generator" /\ DeltasThenTerminal(c.script) /\ c.it = "done"

\* the history the terminal step of exchange c left is not the dispatched history plus
\* the exchange's own assistant turn
Corrupted(c) == Finalized(c) /\ c.post_history # Append(c.sent, OwnTurn(c))

\* C16: the corrupted state of the usage constraint is reachable, and only by breaking
\* the constraint: a second streamed call started before the first exchange is drained,
\* followed by interleaved consumption, leaves an assistant turn that mixes the deltas of
\* both exchanges (C16_Witness); an exchange that started with an empty pending answer
\* and is corrupted was not alone when it started or another operation ran while it
\* was in progress.
C16_CorruptionOnlyByOverlap ==
    \A i \in CallIds :
        LET c == calls[i] IN
        (Corrupted(c) /\ c.pre_answer = <<>>) => ~(c.alone /\ c.clean)

C16_Witness ==
    \E i, j \in CallIds :
        /\ i < j
        /\ calls[i].outcome = "generator" /\ calls[j].outcome = "generator"
        /\ calls[i].pre_answer = <<>> /\ calls[j].pre_answer = <<>>
        /\ calls[i].yielded # <<>>
        /\ Live(calls[i])
        /\ Finalized(calls[j])
        /\ LET turn == calls[j].post_history[Len(calls[j].post_history)]
               own == OwnTurn(calls[j]).content
           IN  /\ turn.role = "assistant"
               /\ Len(turn.content) = Len(own) + Len(concat(calls[i].yielded))
               /\ \E n \in 1..Len(turn.content) :
                      \A m \in 1..Len(own) : own[m] # turn.content[n]

\* the suffix of h that holds its last n turns
LastTurns(h, n) == SubSeq(h, Len(h) - n + 1, Len(h))

\* s fits the limit and does not start with an assistant reply
FitsWhole(s, limit) == sum_of_tokens(s) <= limit /\ (s = <<>> \/ s[1].role = "user")

\* C17: for a history and a limit that some suffix fits, the trimmed history is the
\* longest suffix of the history whose token total is at most the limit and whose first
\* turn, when it has one, is a user turn.
C17_TrimIsLongestWholeSuffix ==
    (Trimmed /\ Limit >= 0) =>
        /\ IsSuffix(history, trim_in)
        /\ FitsWhole(history, Limit)
        /\ \A n \in (Len(history) + 1)..Len(trim_in) : ~FitsWhole(LastTurns(trim_in, n), Limit)

\* the reference algorithm of the specification, by positions: S is the longest suffix
\* every suffix of which, down to the newest turn alone, totals at most the limit
ReferenceScan(h, limit) ==
    LET fits == {n \in 0..Len(h) : \A k \in 1..n : sum_of_tokens(LastTurns(h, k)) <= limit}
    IN  LastTurns(h, CHOOSE n \in fits : \A m \in fits : m <= n)

\* u is the earliest user turn of S; the result is S, or the part of S strictly after u
\* when u exists and is not the first element of S
ReferenceTrim(h, limit) ==
    LET S == ReferenceScan(h, limit)
        users == {k \in 1..Len(S) : S[k].role = "user"}
    IN  IF users = {} THEN S
        ELSE LET u == CHOOSE k \in users : \A m \in users : k <= m
             IN  IF u = 1 THEN S ELSE SubSeq(S, u + 1, Len(S))

\* C18: for every history and limit get_trimmed_history returns what the reference
\* algorithm of the specification returns; an empty history gives an empty result, and
\* so does a newest turn larger than the limit.
C18_TrimEqualsReference ==
    Trimmed =>
        /\ history = ReferenceTrim(trim_in, Limit)
        /\ trim_in = <<>> => history = <<>>
        /\ (/\ trim_in # <<>>
            /\ get_number_of_tokens_dict(trim_in[Len(trim_in)]) > Limit) => history = <<>>

C18_Witness ==
    /\ Trimmed
    /\ history # <<>>
    /\ Len(history) < Len(ReferenceScan(trim_in, Limit))
    /\ Len(ReferenceScan(trim_in, Limit)) < Len(trim_in)
    /\ \E a, b \in 1..Len(trim_in) :
           /\ a < b
           /\ trim_in[a] = trim_in[b]
           /\ trim_in[a].role = "user"
           /\ a > Len(trim_in) - Len(ReferenceScan(trim_in, Limit))

\* the log entry of a __call__ whose details are kept
IsCall(c) == c.dispatch \in {"ok", "OpenAIError", "Exception"}

\* C19: in every call, after any earlier exchanges, if the new user turn alone is within
\* the limit then the history dispatched to the service is not empty and its last turn
\* is that user turn.
C19_SubmittedTurnIsDispatched ==
    \A i \in CallIds :
        LET c == calls[i] IN
        (IsCall(c) /\ get_number_of_tokens_str(preprocessor(c.request)) <= Limit) =>
            /\ c.sent # <<>>
            /\ c.sent[Len(c.sent)] = Turn("user", preprocessor(c.request))

\* C20: in sequential use, each exchange having finished (by success, degradation or
\* exception) before the next call starts, the trimmed history dispatched to the service
\* never holds two consecutive turns of the same role.
C20_DispatchedRolesAlternate ==
    \A i \in CallIds :
        LET c == calls[i] IN
        IsCall(c) => \A n \in 1..(Len(c.sent) - 1) : c.sent[n].role # c.sent[n + 1].role

====
